---- MODULE Spec2Model ----
(***************************************************************************)
(* Model of src/main.py: the sampling and latency-tracking pipeline of the *)
(* CirrusSearch update-lag checker.                                        *)
(*                                                                         *)
(* Three threads share two bounded deques:                                 *)
(*   feed_event_q  (feed reader)   : SSE event -> filter -> event_q        *)
(*   feed_final_q  (sampler)       : event_q.pop() -> final_q.append()     *)
(*   monitor_latency (main thread) : fill_revs / lookup / resolve / sleep  *)
(* An uncaught exception in the main thread ends the process; the two      *)
(* other threads are daemon threads and end with it.                       *)
(***************************************************************************)
EXTENDS Integers, Sequences, FiniteSets, TLC

VARIABLES
    feed,       \* the events EventSource yields, in order                (main.py:52)
    fed,        \* how many of them feed_event_q has received
    event_q,    \* deque(maxlen=5) of accepted payloads            (main.py:49)
    final_q,    \* deque(maxlen=5) of sampled payloads             (main.py:60)
    event,      \* feed_event_q's loop variable: the last SSE event (main.py:52)
    revs,       \* monitor_latency's dict page_title -> Revision, in insertion order
    pc,         \* position of the main thread: "fill" | "query" | "resolve" | "sleep"
    pages,      \* pages of the lookup response not yet consumed by the generator
    request,    \* titles sent by the external call of the latest main-thread step
    status,     \* outcome of that call (NoCall when the step made none)
    emitted,    \* <<(rev, found_at)>> yielded by the latest main-thread step, else <<>>
    overwritten,\* the Revision the latest main-thread step replaced in revs, if any
    exc,        \* uncaught exception that ended the process, or NoExc
    arrivals,   \* history: number of events appended to event_q so far; the
                \* k-th one carries the stamp seq = k while it is in a deque
    tick_mark,  \* history: value of arrivals at the sampler's previous tick
    drained     \* history of the running call of fill_revs, kept for a page
                \* title as long as it can matter: how many items of the title
                \* it has upserted (counted up to 2), the stamp of the one of
                \* them appended to final_q last (newest), the stamp of the
                \* one upserted last (last), and the stamps of the title that
                \* were in final_q when newest was popped and are not yet
                \* upserted (left)

vars == <<feed, fed, event_q, final_q, event, revs, pc, pages, request, status,
          emitted, overwritten, exc, arrivals, tick_mark, drained>>

(***************************************************************************)
(* Bounds and program constants                                            *)
(***************************************************************************)
MaxFeed == 6

maxlen == 5

Last(s) == s[Len(s)]

Front(s) == SubSeq(s, 1, Len(s) - 1)

(***************************************************************************)
(* Payload text.  A payload is the text of one SSE data field.  It is      *)
(* modelled as the sequence of its lexical pieces: `"k":{` (open),         *)
(* `}` (close), `"k":"s"` (str) and `"k":n` (num).  A substring test for   *)
(* `"k":"s"` is a search for that piece anywhere in the text.              *)
(***************************************************************************)
Open(k) == [t |-> "open", k |-> k, s |-> "", n |-> 0]

Close == [t |-> "close", k |-> "", s |-> "", n |-> 0]

Str(k, s) == [t |-> "str", k |-> k, s |-> s, n |-> 0]

Num(k, n) == [t |-> "num", k |-> k, s |-> "", n |-> n]

\* {"meta":{"domain":d},"type":ty,"title":title,"timestamp":ts,"revision":{"old":rev-1,"new":rev}}
ChangeText(d, ty, title, rev, ts) ==
    << Open(""), Open("meta"), Str("domain", d), Close, Str("type", ty),
       Str("title", title), Num("timestamp", ts),
       Open("revision"), Num("old", rev - 1), Num("new", rev), Close, Close >>

\* A protection log entry: top-level type "log", no revision, and a nested
\* "type":"edit" inside log_params.details.
ProtectLogText(d, title, ts) ==
    << Open(""), Open("meta"), Str("domain", d), Close, Str("type", "log"),
       Str("log_type", "protect"), Str("title", title), Num("timestamp", ts),
       Open("log_params"), Open("details"), Str("type", "edit"),
       Str("level", "sysop"), Close, Close, Close >>

\* A plain log entry (top-level type "log", nothing nested).
LogText(d, title, ts) ==
    << Open(""), Open("meta"), Str("domain", d), Close, Str("type", "log"),
       Str("log_type", "delete"), Str("title", title), Num("timestamp", ts), Close >>

\* A payload cut off in transit: the text of an edit without its end.
Truncated(text) == SubSeq(text, 1, Len(text) - 3)

Wikidata == "www.wikidata.org"

\* The i-th event of the stream.  Recent changes arrive in time order and a
\* revision is announced once: event i carries revision 41 + i and timestamp
\* 1000 + 10 * (i - 1); its kind says what sort of change it announces.
FeedEvent(kind, i) ==
    LET rev == 41 + i
        ts == 1000 + 10 * (i - 1)
    IN  CASE kind = "edit Q1" ->
               [event |-> "message", data |-> ChangeText(Wikidata, "edit", "Q1", rev, ts)]
          [] kind = "new Q2" ->
               [event |-> "message", data |-> ChangeText(Wikidata, "new", "Q2", rev, ts)]
          [] kind = "truncated" ->
               [event |-> "message",
                data |-> Truncated(ChangeText(Wikidata, "edit", "Q2", rev, ts))]
          [] kind = "protect log" ->
               [event |-> "message", data |-> ProtectLogText(Wikidata, "Q1", ts)]
          [] kind = "delete log" ->
               [event |-> "message", data |-> LogText(Wikidata, "Q2", ts)]
          [] kind = "enwiki edit" ->
               [event |-> "message",
                data |-> ChangeText("en.wikipedia.org", "edit", "Q1", rev, ts)]
          [] kind = "error event" ->
               [event |-> "error", data |-> ChangeText(Wikidata, "edit", "Q1", rev, ts)]

\* The streams the model is run on: MaxFeed events following one of these
\* patterns of kinds, repeated as often as needed.
Patterns ==
    { <<"edit Q1", "new Q2", "edit Q1">>,
      <<"edit Q1", "enwiki edit", "protect log", "new Q2", "error event",
        "truncated", "delete log">> }

Stream(pattern) ==
    [i \in 1..MaxFeed |-> FeedEvent(pattern[((i - 1) % Len(pattern)) + 1], i)]

Streams == { Stream(p) : p \in Patterns }

NoEvent == [event |-> "", data |-> <<>>]

(***************************************************************************)
(* collections.deque(maxlen=5)                                             *)
(***************************************************************************)
\* Variants of the deque operations, used to test that the properties below
\* depend on them: no maxlen, appendleft for append, popleft for pop.
deque_append_unbounded(q, x) == Append(q, x)

deque_appendleft(q, x) ==
    IF Len(q) >= maxlen THEN <<x>> \o Front(q) ELSE <<x>> \o q

deque_popleft(q) == [item |-> Head(q), rest |-> Tail(q)]

deque_append(q, x) ==
    IF Len(q) >= maxlen THEN Append(Tail(q), x) ELSE Append(q, x)

\* Variant: a pop that leaves the item where it was.
deque_peek(q) == [item |-> Last(q), rest |-> q]

deque_pop(q) == [item |-> Last(q), rest |-> Front(q)]

(***************************************************************************)
(* main.input_filter: substring tests on the raw text                      *)
(***************************************************************************)
Contains(text, piece) == \E i \in 1..Len(text) : text[i] = piece

input_filter(event_data) ==
    LET is_wikidata == Contains(event_data, Str("domain", "www.wikidata.org"))
        is_edit == Contains(event_data, Str("type", "edit"))
        is_new == Contains(event_data, Str("type", "new"))
    IN  is_wikidata /\ (is_edit \/ is_new)

(***************************************************************************)
(* feed_event_q: one iteration of `for event in EventSource(event_url)`    *)
(***************************************************************************)
NoExc == "none"

Accepted(e) == e.event = "message" /\ input_filter(e.data)

\* Variant: a feed reader that bypasses the sampler and appends the accepted
\* payload to final_q itself.
feed_event_q_bypassing ==
    /\ exc = NoExc
    /\ fed < Len(feed)
    /\ fed' = fed + 1
    /\ event' = feed[fed + 1]
    /\ IF Accepted(feed[fed + 1])
       THEN /\ arrivals' = arrivals + 1
            /\ final_q' = deque_append(final_q, [seq |-> arrivals + 1,
                                                 data |-> feed[fed + 1].data])
       ELSE UNCHANGED <<final_q, arrivals>>
    /\ UNCHANGED <<feed, event_q, revs, pc, pages, request, status,
                   emitted, overwritten, exc, tick_mark, drained>>

feed_event_q ==
    /\ exc = NoExc
    /\ fed < Len(feed)
    /\ fed' = fed + 1
    /\ event' = feed[fed + 1]
    /\ IF Accepted(feed[fed + 1])
       THEN /\ arrivals' = arrivals + 1
            /\ event_q' = deque_append(event_q, [seq |-> arrivals + 1,
                                                 data |-> feed[fed + 1].data])
       ELSE UNCHANGED <<event_q, arrivals>>
    /\ UNCHANGED <<feed, final_q, revs, pc, pages, request, status,
                   emitted, overwritten, exc, tick_mark, drained>>

(***************************************************************************)
(* feed_final_q: one iteration of its loop: pop the newest payload of      *)
(* event_q, append it to final_q, sleep.  The iteration is one step: its   *)
(* pop is ordered only against the feed reader's appends and its append    *)
(* only against the main thread's pops, and those two never touch the same *)
(* deque, so every interleaving of the separate pop and append has the     *)
(* same effect as one in which they are adjacent.                          *)
(***************************************************************************)
\* Variant: a sampler that puts into a blocking bounded queue, waiting for
\* room in final_q.
feed_final_q_blocking ==
    /\ exc = NoExc
    /\ Len(final_q) < maxlen
    /\ IF event_q = <<>>
       THEN UNCHANGED <<event_q, final_q>>
       ELSE /\ event_q' = deque_pop(event_q).rest
            /\ final_q' = Append(final_q, deque_pop(event_q).item)
    /\ tick_mark' = arrivals
    /\ UNCHANGED <<feed, fed, event, revs, pc, pages, request, status, emitted,
                   overwritten, exc, arrivals, drained>>

feed_final_q ==
    /\ exc = NoExc
    /\ IF event_q = <<>>
       THEN \* IndexError: pass
            UNCHANGED <<event_q, final_q>>
       ELSE /\ event_q' = deque_pop(event_q).rest
            /\ final_q' = deque_append(final_q, deque_pop(event_q).item)
    /\ tick_mark' = arrivals
    /\ UNCHANGED <<feed, fed, event, revs, pc, pages, request, status, emitted,
                   overwritten, exc, arrivals, drained>>

(***************************************************************************)
(* json.loads and the subscripts of fill_revs.  Enclosing(text, i) is the  *)
(* chain of object keys open after the first i pieces; Unbalanced marks a  *)
(* text that closes more than it opens or goes on after its end.           *)
(***************************************************************************)
Unbalanced == <<"#">>

\* The chain after piece tok, the i-th of the text, given the chain before it.
Nest(prev, tok, i) ==
    IF prev = Unbalanced THEN Unbalanced
    ELSE IF prev = <<>> /\ (i > 1 \/ tok.t # "open") THEN Unbalanced
    ELSE IF tok.t = "open" THEN Append(prev, tok.k)
    ELSE IF tok.t = "close" THEN Front(prev)
    ELSE prev

\* (the chain before the piece is bound as a value, so that it is computed
\* once for each piece)
RECURSIVE Enclosing(_, _)
Enclosing(text, i) ==
    IF i = 0 THEN <<>>
    ELSE CHOOSE next \in { Nest(prev, text[i], i) : prev \in {Enclosing(text, i - 1)} } : TRUE

\* json.loads(text) succeeds
json_ok(text) == Len(text) > 0 /\ Enclosing(text, Len(text)) = <<>>

\* positions of member `key` of the object reached by `path`
Members(obj, path, key) ==
    { i \in 1..Len(obj) : obj[i].k = key /\ obj[i].t # "close"
                          /\ Enclosing(obj, i - 1) = path }

HasKey(obj, path, key) == Members(obj, path, key) # {}

Member(obj, path, key) == obj[CHOOSE i \in Members(obj, path, key) : TRUE]

\* The exception lines 123-128 raise on raw_event, or NoExc.
parse_exc(raw_event) ==
    IF ~json_ok(raw_event) THEN "JSONDecodeError"
    ELSE IF  \/ ~HasKey(raw_event, <<"">>, "title")
             \/ ~HasKey(raw_event, <<"">>, "revision")
             \/ ~HasKey(raw_event, <<"", "revision">>, "new")
             \/ ~HasKey(raw_event, <<"">>, "timestamp")
         THEN "KeyError"
    ELSE NoExc

Revision(raw_event) ==
    [page_title |-> Member(raw_event, <<"">>, "title").s,
     rev_id |-> Member(raw_event, <<"", "revision">>, "new").n,
     rc_timestamp |-> Member(raw_event, <<"">>, "timestamp").n]

(***************************************************************************)
(* revs: a dict keyed by page_title, kept as its items in insertion order  *)
(***************************************************************************)
dict_keys(d) == [i \in 1..Len(d) |-> d[i].page_title]

dict_has(d, k) == \E i \in 1..Len(d) : d[i].page_title = k

dict_get(d, k) == d[CHOOSE i \in 1..Len(d) : d[i].page_title = k]

\* Variant: the table kept as a list of items, every upsert adding one.
dict_set_append(d, rev) == Append(d, rev)

\* Variant: an upsert that starts the table afresh.
dict_reset(d, rev) == <<rev>>

\* revs[rev.page_title] = rev
dict_set(d, rev) ==
    IF dict_has(d, rev.page_title)
    THEN [i \in 1..Len(d) |-> IF d[i].page_title = rev.page_title THEN rev ELSE d[i]]
    ELSE Append(d, rev)

IsNot(k, r) == r.page_title # k

\* Variant: a removal that clears the whole table.
dict_clear(d, k) == <<>>

\* del revs[page_title]
dict_del(d, k) == SelectSeq(d, LAMBDA r : IsNot(k, r))

(***************************************************************************)
(* monitor_latency.fill_revs: one iteration of its loop                    *)
(***************************************************************************)
NoCall == "no call"

\* The stamps of the items of q whose text names page title k (a payload
\* names one title, as a member of its top-level object).
StampsOf(q, k) ==
    { q[i].seq : i \in { j \in 1..Len(q) : Contains(q[j].data, Str("title", k)) } }

\* The history after fill_revs has popped and upserted `item`, leaving `rest`
\* in final_q.  final_q is appended to and popped at the right, so of two
\* items popped by one call the later popped one was appended before the
\* other exactly if it was in final_q when the other was popped.  A title
\* whose entry is its newest item and that has nothing older waiting needs no
\* record: whatever is popped for it later was appended later.
Consumed(d, item, rest) ==
    LET k == Revision(item.data).page_title
        fresh == [title |-> k, n |-> 1, newest |-> item.seq, last |-> item.seq,
                  left |-> StampsOf(rest, k)]
        all == IF \E r \in d : r.title = k
               THEN LET r == CHOOSE r \in d : r.title = k
                    IN  (d \ {r}) \cup
                          { IF item.seq \in r.left
                            THEN [r EXCEPT !.n = 2, !.last = item.seq,
                                           !.left = r.left \ {item.seq}]
                            ELSE [fresh EXCEPT !.n = 2] }
               ELSE d \cup {fresh}
    IN  { r \in all : r.left # {} \/ r.last # r.newest }

fill_revs ==
    /\ exc = NoExc
    /\ pc = "fill"
    /\ IF final_q = <<>>
       THEN \* IndexError: return
            /\ pc' = "query"
            /\ overwritten' = <<>>
            /\ drained' = {}
            /\ UNCHANGED <<final_q, revs, exc>>
       ELSE LET raw_event == deque_pop(final_q).item.data
                raised == parse_exc(raw_event)
            IN  /\ final_q' = deque_pop(final_q).rest
                /\ drained' = IF raised = NoExc
                              THEN Consumed(drained, deque_pop(final_q).item,
                                            deque_pop(final_q).rest)
                              ELSE drained
                /\ exc' = raised
                /\ IF raised = NoExc
                   THEN /\ revs' = dict_set(revs, Revision(raw_event))
                        /\ overwritten' =
                             IF dict_has(revs, Revision(raw_event).page_title)
                             THEN <<dict_get(revs, Revision(raw_event).page_title)>>
                             ELSE <<>>
                   ELSE /\ overwritten' = <<>>
                        /\ UNCHANGED revs
                /\ UNCHANGED pc
    /\ request' = <<>>
    /\ status' = NoCall
    /\ emitted' = <<>>
    /\ UNCHANGED <<feed, fed, event_q, event, pages, arrivals, tick_mark>>

(***************************************************************************)
(* cirrusdump / current_search_rev: the batched lookup                     *)
(***************************************************************************)
\* Variant: cirrusdump without its early return.
titles_never_empty(titles) == FALSE

\* '|'.join(titles) == ''  (page titles are not empty)
titles_empty(titles) == Len(titles) = 0

\* Variant: the response used without looking at its status.
raise_for_status_ignored(st) == NoExc

\* res.raise_for_status(), and requests.get failing to connect
raise_for_status(st) ==
    IF st = "connection error" THEN "ConnectionError"
    ELSE IF st = "503" THEN "HTTPError"
    ELSE NoExc

Outcomes == {"200", "503", "connection error"}

\* The cirrusdoc lists a page may carry: no document (also a page without
\* the member: page.get('cirrusdoc', [])), or one version per shard.
\* Versions are revision ids, which are positive.
DocLists == { <<>>, <<41>>, <<41, 42>>, <<45, 44>> }

Range(f) == { f[i] : i \in DOMAIN f }

\* Every order in which the response may list the requested titles (all
\* requested pages are returned, main.py:90).
Orders(titles) ==
    { o \in [1..Len(titles) -> Range(titles)] : Range(o) = Range(titles) }

Responses(titles) ==
    { [i \in 1..Len(titles) |-> [title |-> o[i], cirrusdoc |-> docs[i]]] :
        o \in Orders(titles), docs \in [1..Len(titles) -> DocLists] }

RECURSIVE max(_)
max(rev_ids) ==
    IF Len(rev_ids) = 1 THEN rev_ids[1]
    ELSE LET m == max(Tail(rev_ids))
         IN  IF rev_ids[1] >= m THEN rev_ids[1] ELSE m

\* The pair current_search_rev yields for one page; rev_id None is <<>>.
current_search_rev(page) ==
    [title |-> page.title,
     rev_id |-> IF page.cirrusdoc = <<>> THEN <<>> ELSE <<max(page.cirrusdoc)>>]

query ==
    /\ exc = NoExc
    /\ pc = "query"
    /\ emitted' = <<>>
    /\ overwritten' = <<>>
    /\ IF titles_empty(dict_keys(revs))
       THEN \* return {} : the for loop has nothing to iterate
            /\ request' = <<>>
            /\ status' = NoCall
            /\ pages' = <<>>
            /\ pc' = "sleep"
            /\ UNCHANGED exc
       ELSE /\ request' = dict_keys(revs)
            /\ \E st \in Outcomes :
                 /\ status' = st
                 /\ exc' = raise_for_status(st)
                 /\ IF raise_for_status(st) = NoExc
                    THEN /\ pages' \in Responses(dict_keys(revs))
                         /\ pc' = "resolve"
                    ELSE UNCHANGED <<pages, pc>>
    /\ UNCHANGED <<feed, fed, event_q, final_q, event, revs, arrivals,
                   tick_mark, drained>>

(***************************************************************************)
(* monitor_latency: the body of its for loop, for the next yielded page    *)
(***************************************************************************)
ClockReadings == {1030, 1090}

\* Variants: a strict comparison, and no comparison at all.
satisfied_strict(cur_rev_id, rev) ==
    /\ cur_rev_id # <<>>
    /\ cur_rev_id[1] # 0
    /\ cur_rev_id[1] > rev.rev_id

satisfied_any(cur_rev_id, rev) == cur_rev_id # <<>> /\ cur_rev_id[1] # 0

\* cur_rev_id and cur_rev_id >= rev.rev_id
satisfied(cur_rev_id, rev) ==
    /\ cur_rev_id # <<>>
    /\ cur_rev_id[1] # 0
    /\ cur_rev_id[1] >= rev.rev_id

resolve ==
    /\ exc = NoExc
    /\ pc = "resolve"
    /\ LET cur == current_search_rev(Head(pages))
       IN  IF ~dict_has(revs, cur.title)
           THEN \* revs[page_title] raises
                /\ exc' = "KeyError"
                /\ emitted' = <<>>
                /\ UNCHANGED <<revs, pages, pc>>
           ELSE /\ IF satisfied(cur.rev_id, dict_get(revs, cur.title))
                   THEN /\ revs' = dict_del(revs, cur.title)
                        /\ \E found_at \in ClockReadings :
                             emitted' = << [rev |-> dict_get(revs, cur.title),
                                            found_at |-> found_at] >>
                   ELSE /\ emitted' = <<>>
                        /\ UNCHANGED revs
                /\ pages' = Tail(pages)
                /\ pc' = IF Tail(pages) = <<>> THEN "sleep" ELSE "resolve"
                /\ UNCHANGED exc
    /\ request' = <<>>
    /\ status' = NoCall
    /\ overwritten' = <<>>
    /\ UNCHANGED <<feed, fed, event_q, final_q, event, arrivals, tick_mark,
                   drained>>

\* Variant: a loop that goes from the sleep straight to the lookup.
poller_sleep_skipping ==
    /\ exc = NoExc
    /\ pc = "sleep"
    /\ pc' = "query"
    /\ request' = <<>>
    /\ status' = NoCall
    /\ emitted' = <<>>
    /\ overwritten' = <<>>
    /\ UNCHANGED <<feed, fed, event_q, final_q, event, revs, pages, exc,
                   arrivals, tick_mark, drained>>

poller_sleep ==
    /\ exc = NoExc
    /\ pc = "sleep"
    /\ pc' = "fill"
    /\ request' = <<>>
    /\ status' = NoCall
    /\ emitted' = <<>>
    /\ overwritten' = <<>>
    /\ UNCHANGED <<feed, fed, event_q, final_q, event, revs, pages, exc,
                   arrivals, tick_mark, drained>>

(***************************************************************************)
(* main: the body of `for rev, found_at in monitor_latency(q)`, which runs *)
(* at every yield before the generator is resumed                          *)
(***************************************************************************)
\* Variant: the lag taken from the clock reading alone.
lag_since_epoch(rev, found_at) == found_at

\* lag = found_at - rev.rc_timestamp
lag(rev, found_at) == found_at - rev.rc_timestamp

\* What main prints for the pairs yielded by the latest main-thread step:
\* the page title and the lag.
printed ==
    [i \in 1..Len(emitted) |->
       [page_title |-> emitted[i].rev.page_title,
        lag |-> lag(emitted[i].rev, emitted[i].found_at)]]

Init ==
    /\ feed \in Streams
    /\ fed = 0
    /\ event_q = <<>>
    /\ final_q = <<>>
    /\ event = NoEvent
    /\ revs = <<>>
    /\ pc = "fill"
    /\ pages = <<>>
    /\ request = <<>>
    /\ status = NoCall
    /\ emitted = <<>>
    /\ overwritten = <<>>
    /\ exc = NoExc
    /\ arrivals = 0
    /\ tick_mark = 0
    /\ drained = {}

Next ==
    \/ feed_event_q
    \/ feed_final_q
    \/ fill_revs
    \/ query
    \/ resolve
    \/ poller_sleep

Spec == Init /\ [][Next]_vars

\* The main thread is never starved: whichever of its steps is due is
\* eventually taken (time.sleep returns, a reply or an error arrives).
poller == fill_revs \/ query \/ resolve \/ poller_sleep

\* The same program on the streams cut to their first half, which keeps the
\* graph small enough to search for cycles.
FairInit ==
    /\ feed \in { SubSeq(st, 1, MaxFeed \div 2) : st \in Streams }
    /\ fed = 0
    /\ event_q = <<>>
    /\ final_q = <<>>
    /\ event = NoEvent
    /\ revs = <<>>
    /\ pc = "fill"
    /\ pages = <<>>
    /\ request = <<>>
    /\ status = NoCall
    /\ emitted = <<>>
    /\ overwritten = <<>>
    /\ exc = NoExc
    /\ arrivals = 0
    /\ tick_mark = 0
    /\ drained = {}

FairSpec == FairInit /\ [][Next]_vars /\ WF_vars(poller)
(***************************************************************************)
(* Properties                                                              *)
(***************************************************************************)
DataOf(q) == [i \in 1..Len(q) |-> q[i].data]

LastN(s, n) == IF Len(s) <= n THEN s ELSE SubSeq(s, Len(s) - n + 1, Len(s))

\* The payloads appended to event_q so far, in arrival order.
Pushed == DataOf(SelectSeq(SubSeq(feed, 1, fed), Accepted))

\* tick_mark = 0 exactly as long as the sampler has popped nothing.
NothingPopped == tick_mark = 0

FeedPushes == arrivals' = arrivals + 1

\* Steps of the sampler that promote: only they shorten event_q.
Promotes == Len(event_q') < Len(event_q)

\* Steps of the main thread that pop final_q: only they shorten it.
FillPops == Len(final_q') < Len(final_q)

Newest(q, x) ==
    /\ \E i \in 1..Len(q) : q[i] = x
    /\ \A i \in 1..Len(q) : q[i].seq <= x.seq

Without(q, x) == SelectSeq(q, LAMBDA y : y # x)

C1_Step ==
    /\ FeedPushes =>
         event_q' = (IF Len(event_q) = 5 THEN Tail(event_q) ELSE event_q)
                      \o << [seq |-> arrivals', data |-> event'.data] >>
    /\ Promotes =>
         final_q' = (IF Len(final_q) = 5 THEN Tail(final_q) ELSE final_q)
                      \o << Last(event_q) >>

C1_State ==
    /\ Len(event_q) <= 5
    /\ Len(final_q) <= 5
    /\ NothingPopped => DataOf(event_q) = LastN(Pushed, 5)

\* C1: event_q and final_q never hold more than 5 items; a push appends at
\* the right and, on a full buffer, drops exactly the oldest (leftmost) item;
\* so after more than 5 pushes with no pop event_q holds exactly the 5 most
\* recent pushes in arrival order.
C1_BuffersBounded == [](C1_State) /\ [][C1_Step]_vars

C1_Witness == NothingPopped /\ arrivals > 5 /\ Len(event_q) = 5

C2_Step ==
    /\ Promotes =>
         /\ Len(event_q') = Len(event_q) - 1
         /\ Newest(event_q, Last(final_q'))
         /\ event_q' = Without(event_q, Last(final_q'))
         /\ Len(final_q') <= Len(final_q) + 1
         /\ Front(final_q') = LastN(final_q, Len(final_q') - 1)
         /\ exc' = NoExc
    /\ (final_q' # final_q /\ ~FillPops) => Promotes
    /\ event_q = <<>> =>
         /\ final_q' = final_q \/ FillPops
         /\ event_q' = event_q \/ FeedPushes

\* C2: a sampler tick promotes at most one event.  On a non-empty event_q
\* it takes the most recently inserted item out of event_q and appends that
\* one item to final_q; with event_q empty no step adds anything to final_q,
\* changes event_q other than by a feed push, or raises.
C2_TickPromotesNewest == [][C2_Step]_vars

\* The tick has just promoted the newest of several items of event_q.
C2_Witness ==
    /\ tick_mark = arrivals
    /\ event_q # <<>>
    /\ final_q # <<>>
    /\ \A i \in 1..Len(event_q) : event_q[i].seq < Last(final_q).seq
    /\ Last(final_q).seq = arrivals

\* C3, as stated: every event promoted at a tick arrived since the previous
\* tick (a period without arrivals promotes nothing).
C3_NoCatchUp == [][Promotes => Last(final_q').seq > tick_mark]_vars

C3_Step ==
    /\ Promotes =>
         /\ Newest(event_q, Last(final_q'))
         /\ arrivals > tick_mark => Last(final_q').seq = arrivals
         /\ arrivals = tick_mark => Last(final_q').seq <= tick_mark
    /\ (tick_mark' # tick_mark /\ event_q # <<>>) => Promotes

\* C3, as the code has it: a tick promotes nothing only when event_q is empty;
\* it promotes the most recently arrived event still in event_q, which
\* arrived since the previous tick if anything did, and otherwise is a
\* leftover of an earlier period.
C3_PromotesNewestRemaining == [][C3_Step]_vars

\* A leftover of an earlier period has just been promoted.
C3_Witness ==
    /\ tick_mark = arrivals
    /\ final_q # <<>>
    /\ Last(final_q).seq < arrivals
    /\ \E i \in 1..Len(final_q) - 1 : final_q[i].seq > Last(final_q).seq

\* Further steps of the main thread, told apart by what only they change.
QuerySteps == pc = "query" /\ (pc' # "query" \/ exc' # exc)

ResolveSteps == pc = "resolve" /\ (pages' # pages \/ exc' # exc)

Entries(d, k) == { i \in 1..Len(d) : d[i].page_title = k }

Titles(d) == { d[i].page_title : i \in 1..Len(d) }

\* The indexed revision a page reports: the greatest version among its
\* documents, <<>> when it has none.
Indexed(page) ==
    IF page.cirrusdoc = <<>> THEN <<>>
    ELSE << CHOOSE v \in Range(page.cirrusdoc) :
              \A w \in Range(page.cirrusdoc) : w <= v >>

C4_State == \A k \in Titles(revs) : Cardinality(Entries(revs, k)) = 1

C4_Step ==
    (FillPops /\ exc' = NoExc) =>
      LET up == Revision(Last(final_q).data)
      IN  /\ \E i \in 1..Len(revs') : revs'[i] = up
          /\ Cardinality(Entries(revs', up.page_title)) = 1
          /\ Titles(revs') = Titles(revs) \cup {up.page_title}
          /\ \A i \in 1..Len(revs) :
               revs[i].page_title # up.page_title
                 => \E j \in 1..Len(revs') : revs'[j] = revs[i]

\* C4: the pending table never holds two entries for one subject, and an
\* upsert replaces whatever the subject had: afterwards its single entry
\* carries the revision id and timestamp of the upserted event, and the
\* entries of the other subjects are as before.
C4_UpsertOverwrites == [](C4_State) /\ [][C4_Step]_vars

C4_Witness ==
    /\ overwritten # <<>>
    /\ \E i \in 1..Len(revs) :
         /\ revs[i].page_title = overwritten[1].page_title
         /\ revs[i] # overwritten[1]

C5_Step ==
    ResolveSteps =>
      LET page == Head(pages)
          idx == Indexed(page)
          i == CHOOSE i \in Entries(revs, page.title) : TRUE
      IN  /\ Entries(revs, page.title) # {}
          /\ IF idx # <<>> /\ idx[1] >= revs[i].rev_id
             THEN /\ Len(emitted') = 1
                  /\ emitted'[1].rev = revs[i]
                  /\ Entries(revs', page.title) = {}
                  /\ exc' = NoExc
             ELSE /\ revs' = revs
                  /\ emitted' = <<>>
                  /\ exc' = NoExc

\* C5: a resolve step removes and emits the entry of the returned subject
\* if and only if an indexed revision is reported and is >= the entry's
\* expected revision; otherwise (smaller, or unknown) the table is unchanged,
\* nothing is emitted and nothing is raised.
C5_ResolveIffSatisfied == [][C5_Step]_vars

C5_Witness ==
    /\ Len(emitted) = 1
    /\ Entries(revs, emitted[1].rev.page_title) = {}
    /\ revs # <<>>

Malformed(raw) ==
    \/ ~json_ok(raw)
    \/ Members(raw, <<"">>, "title") = {}
    \/ Members(raw, <<"", "revision">>, "new") = {}
    \/ Members(raw, <<"">>, "timestamp") = {}

\* C6: a malformed payload (unparseable, or lacking a field) popped from
\* final_q is skipped: nothing is raised, the table is unchanged and the
\* main thread goes on draining.
C6_MalformedSkipped ==
    [][(FillPops /\ Malformed(Last(final_q).data))
         => (exc' = NoExc /\ revs' = revs /\ pc' = "fill")]_vars

C7_Step ==
    /\ QuerySteps =>
         IF revs = <<>>
         THEN /\ status' = NoCall
              /\ request' = <<>>
              /\ pages' = <<>>
              /\ emitted' = <<>>
              /\ revs' = revs
              /\ exc' = NoExc
              /\ pc' = "sleep"
         ELSE /\ status' # NoCall
              /\ Range(request') = Titles(revs)
    /\ (status' # NoCall /\ status' # status) => (QuerySteps /\ revs # <<>>)

C7_State == status # NoCall => request # <<>>

\* C7: with an empty pending table the query makes no external call, has an
\* empty result, resolves nothing and goes on to sleep; an external call is
\* made only by a query with at least one pending subject, for exactly the
\* pending subjects.
C7_EmptyShortCircuit == [](C7_State) /\ [][C7_Step]_vars

C7_Witness ==
    /\ pc = "sleep"
    /\ revs = <<>>
    /\ emitted = <<>>
    /\ status = NoCall
    /\ arrivals > 0

LookupFailed == exc \in {"HTTPError", "ConnectionError"}

C8_Step ==
    /\ (QuerySteps /\ status' \in {"503", "connection error"}) =>
         /\ exc' \in {"HTTPError", "ConnectionError"}
         /\ revs' = revs
         /\ emitted' = <<>>
         /\ pc' = "query"
    /\ LookupFailed => UNCHANGED vars

C8_State == LookupFailed => (status \in {"503", "connection error"} /\ pc = "query")

\* C8: a failed lookup is fatal: the failing step raises, resolves and emits
\* nothing and leaves the table alone, and from then on no step is taken at
\* all (no retry, no further lookup, no resolution).
C8_LookupFailureFatal == [](C8_State) /\ [][C8_Step]_vars

C8_Witness == exc = "HTTPError" /\ revs # <<>>

MarksWikidata(text) ==
    \E i \in Members(text, <<"", "meta">>, "domain") : text[i].s = "www.wikidata.org"

MarksEditOrNew(text) ==
    \E i \in Members(text, <<"">>, "type") : text[i].s \in {"edit", "new"}

\* C9: the filter accepts a payload if and only if the payload gives
\* www.wikidata.org as its domain and edit or new as its type, and event_q
\* only ever receives payloads of message events the filter accepts.
C9_FilterExact ==
    /\ event # NoEvent =>
         (input_filter(event.data) <=> (MarksWikidata(event.data) /\ MarksEditOrNew(event.data)))
    /\ \A i \in 1..Len(event_q) :
         \E j \in 1..fed : /\ feed[j].event = "message"
                           /\ feed[j].data = event_q[i].data
                           /\ input_filter(feed[j].data)

C10_Step ==
    \A i \in 1..Len(revs) :
      LET e == revs[i]
          now == { j \in 1..Len(revs') : revs'[j].page_title = e.page_title }
      IN  \/ \E j \in now : revs'[j] = e
          \/ /\ now = {}
             /\ ResolveSteps
             /\ Head(pages).title = e.page_title
             /\ Indexed(Head(pages)) # <<>>
             /\ Indexed(Head(pages))[1] >= e.rev_id
          \/ /\ now # {}
             /\ FillPops
             /\ exc' = NoExc
             /\ Revision(Last(final_q).data).page_title = e.page_title
             /\ \A j \in now : revs'[j] = Revision(Last(final_q).data)

\* C10: an entry leaves the table only in a resolve step for its subject
\* whose reported indexed revision is >= its expected revision, and its
\* fields change only in an upsert of an event for the same subject; in
\* every other step it stays as it is.
C10_RemovedOnlyByResolve == [][C10_Step]_vars

C10_Witness ==
    /\ pc = "sleep"
    /\ status = NoCall
    /\ \E i \in 1..Len(revs) : revs[i].rev_id = 42
    /\ fed = Len(feed)

C11_Step ==
    /\ ResolveSteps =>
         LET page == Head(pages)
             i == CHOOSE i \in Entries(revs, page.title) : TRUE
         IN  IF revs' # revs
             THEN /\ Len(emitted') = 1
                  /\ emitted'[1].rev = revs[i]
                  /\ emitted'[1].found_at \in ClockReadings
                  /\ Entries(revs', page.title) = {}
                  /\ Len(revs') = Len(revs) - 1
                  /\ Len(printed') = 1
                  /\ printed'[1].page_title = page.title
                  /\ printed'[1].lag = emitted'[1].found_at - revs[i].rc_timestamp
             ELSE emitted' = <<>> /\ printed' = <<>>
    /\ (emitted' # <<>> /\ emitted' # emitted) => ResolveSteps
    \* the scenario: Q1 pending with revision 42 of time 1000
    /\ (ResolveSteps /\ Head(pages).title = "Q1"
          /\ \E i \in 1..Len(revs) :
               revs[i] = [page_title |-> "Q1", rev_id |-> 42, rc_timestamp |-> 1000]) =>
         /\ Indexed(Head(pages)) = <<41>> => (emitted' = <<>> /\ revs' = revs)
         /\ Indexed(Head(pages)) = <<42>> =>
              /\ Entries(revs', "Q1") = {}
              /\ Len(printed') = 1
              /\ printed'[1].page_title = "Q1"
              /\ printed'[1].lag = emitted'[1].found_at - 1000

\* C11: every resolution (removal of an entry by a resolve step) yields
\* exactly one measurement, and nothing else yields one; the measurement
\* carries the removed entry (its title and its rc_timestamp) and a reading
\* of the clock, and the lag printed for it is that reading minus the
\* rc_timestamp.  With Q1 pending at revision 42 of time 1000, a reported
\* revision 41 yields nothing and keeps Q1, a reported revision 42 removes
\* Q1 and prints the lag clock - 1000.
C11_MeasurementPerResolution == [][C11_Step]_vars

\* Q1's revision 42 of time 1000 has just been resolved at clock 1090.
C11_Witness ==
    /\ Len(emitted) = 1
    /\ emitted[1].rev = [page_title |-> "Q1", rev_id |-> 42, rc_timestamp |-> 1000]
    /\ printed = << [page_title |-> "Q1", lag |-> 90] >>
    /\ Entries(revs, "Q1") = {}

\* Steps of the three threads, told apart by what only they change.
FeedSteps == fed' # fed

SamplerSteps == tick_mark' # tick_mark \/ Promotes

MainSteps == pc' # pc \/ FillPops \/ QuerySteps \/ ResolveSteps

LookupIssued == status' # NoCall /\ status' # status

C12_Step ==
    /\ FeedSteps =>
         /\ \/ event_q' = event_q
            \/ /\ Accepted(event')
               /\ Len(event_q') >= Len(event_q)
               /\ Last(event_q').data = event'.data
               /\ Front(event_q') = LastN(event_q, Len(event_q') - 1)
         /\ UNCHANGED <<final_q, revs, pc, pages, request, status, emitted, exc>>
    /\ SamplerSteps =>
         UNCHANGED <<fed, event, revs, pc, pages, request, status, emitted, exc>>
    /\ revs' # revs => (MainSteps /\ ~FeedSteps /\ ~SamplerSteps)
    /\ LookupIssued => (QuerySteps /\ ~FeedSteps /\ ~SamplerSteps)
    /\ final_q' # final_q => (SamplerSteps \/ MainSteps)

\* C12: a step of the feed reader changes nothing but event_q, and that only
\* by appending the accepted payload; it leaves final_q, revs and the main
\* thread alone.  A step of the sampler changes only event_q and final_q.
\* revs changes only in steps of the main thread, and an external call is
\* made only by the main thread's query step.
C12_ThreadFrames == [][C12_Step]_vars

\* All three threads have acted: the feed reader and the sampler have filled
\* both deques while the main thread holds the response of a lookup.
C12_Witness ==
    /\ status = "200"
    /\ pc = "resolve"
    /\ revs # <<>>
    /\ event_q # <<>>
    /\ final_q # <<>>
    /\ tick_mark = arrivals

\* The process is running: no uncaught exception has ended it.
Running == exc = NoExc

\* C13: while the process runs, whatever the lengths of event_q and final_q
\* (full included) and wherever the main thread stands: the feed reader can
\* push the next accepted event of the stream onto event_q, the sampler can
\* promote whenever event_q holds something, and fill_revs on an empty
\* final_q can return at once (going on to the query with revs unchanged).
C13_NeverBlock ==
    Running =>
      /\ (fed < Len(feed) /\ Accepted(feed[fed + 1])) =>
           ENABLED (feed_event_q /\ FeedPushes /\ Len(event_q') >= Len(event_q))
      /\ event_q # <<>> =>
           ENABLED (feed_final_q /\ Promotes /\ final_q' # final_q)
      /\ event_q = <<>> => ENABLED (feed_final_q /\ final_q' = final_q)
      /\ (pc = "fill" /\ final_q = <<>>) =>
           ENABLED (fill_revs /\ pc' = "query" /\ revs' = revs /\ exc' = NoExc)

\* final_q is full, event_q holds an event to promote, an accepted event
\* was pushed onto event_q, and the main thread is asleep.
C13_Witness ==
    /\ Running
    /\ Len(final_q) = maxlen
    /\ event_q # <<>>
    /\ Last(event_q).seq = arrivals
    /\ pc = "sleep"

\* The step in which fill_revs returns.
DrainDone == pc = "fill" /\ pc' = "query"

\* C14: when a call of fill_revs returns after consuming two or more items
\* of final_q for one page title, the entry of that title is the Revision of
\* the one of them that was appended to final_q last, which is then also the
\* one upserted last.
C14_NewestWins ==
    [][DrainDone =>
         \A r \in drained :
           r.n >= 2 =>
             /\ r.last = r.newest
             /\ \E i \in 1..Len(revs) : revs[i] = Revision(Pushed[r.newest])]_vars

PhaseOrder ==
    { <<"fill", "query">>, <<"query", "resolve">>, <<"query", "sleep">>,
      <<"resolve", "sleep">>, <<"sleep", "fill">> }

C15_Step ==
    /\ pc' # pc => <<pc, pc'>> \in PhaseOrder
    \* fill_revs returns only on finding final_q empty
    /\ (pc = "fill" /\ pc' = "query") => (final_q = <<>> /\ revs' = revs)
    /\ (FillPops \/ overwritten' # <<>>) => (pc = "fill" /\ pc' = "fill")
    \* one lookup, for all keys of revs as fill_revs left them
    /\ LookupIssued => (pc = "query" /\ Range(request') = Titles(revs))
    /\ QuerySteps => (pc' # "query" \/ exc' # NoExc)
    /\ (pc = "query" /\ pc' = "resolve") =>
         (LookupIssued /\ revs # <<>> /\ Len(pages') = Len(revs)
            /\ { pages'[i].title : i \in 1..Len(pages') } = Titles(revs))
    /\ (pc = "query" /\ pc' = "sleep") => (revs = <<>> /\ status' = NoCall)
    \* every removal and every yield while the response is being consumed
    /\ (Len(revs') < Len(revs) \/ (emitted' # <<>> /\ emitted' # emitted)) =>
         (pc = "resolve" /\ pc' \in {"resolve", "sleep"})
    /\ (pc = "resolve" /\ pc' = "sleep") => Len(pages) = 1
    /\ (pc = "sleep" /\ pc' = "fill") => (revs' = revs /\ emitted' = <<>>)

\* C15: the main thread goes through fill_revs, the lookup, the loop over
\* the response and the sleep in this order and then starts over; fill_revs
\* returns only on finding final_q empty, and the lookup that follows asks
\* once for all keys revs then has (no call when revs is empty); entries are
\* removed and pairs yielded only while the response is consumed, which ends
\* with its last page before the sleep.
C15_PhaseOrder == [][C15_Step]_vars

\* A second cycle has begun with an entry left pending by the first.
C15_Witness ==
    /\ pc = "fill"
    /\ Running
    /\ drained = {}
    /\ revs # <<>>
    /\ final_q # <<>>

C16_State ==
    /\ exc # "KeyError" \/ pc = "fill"
    /\ (pc = "resolve" /\ Running) =>
         /\ pages # <<>>
         /\ \A i \in 1..Len(pages) : dict_has(revs, pages[i].title)
         /\ \A i, j \in 1..Len(pages) : pages[i].title = pages[j].title => i = j

\* C16: with a response that lists requested titles only, every page the
\* loop takes from the response has its entry in revs when revs[page_title]
\* is evaluated, also after entries of earlier pages of the same response
\* were deleted and their pairs yielded; revs[page_title] never raises
\* KeyError.
C16_LookupNeverFails ==
    /\ [](C16_State)
    /\ [][ResolveSteps =>
             /\ dict_has(revs, Head(pages).title)
             /\ exc' = NoExc
             /\ \A i \in 1..Len(pages') : dict_has(revs', pages'[i].title)]_vars

\* In the middle of a response: the entry of an earlier page was deleted and
\* yielded, and the next page is about to be looked up.
C16_Witness ==
    /\ pc = "resolve"
    /\ Len(emitted) = 1
    /\ pages # <<>>
    /\ dict_has(revs, Head(pages).title)
    /\ ~dict_has(revs, emitted[1].rev.page_title)

Stamps(q) == { q[i].seq : i \in 1..Len(q) }

C17_State ==
    /\ Cardinality(Stamps(event_q)) = Len(event_q)
    /\ Cardinality(Stamps(final_q)) = Len(final_q)
    /\ Stamps(event_q) \cap Stamps(final_q) = {}
    /\ Stamps(event_q) \cup Stamps(final_q) \subseteq 1..arrivals

C17_Step ==
    \* an item enters event_q only as the payload of a newly accepted event
    /\ \A n \in Stamps(event_q') \ Stamps(event_q) :
         /\ Last(event_q') = [seq |-> arrivals + 1, data |-> event'.data]
         /\ n = arrivals + 1
         /\ FeedSteps
         /\ Accepted(event')
    \* an item enters final_q only out of event_q, which loses it
    /\ \A n \in Stamps(final_q') \ Stamps(final_q) :
         /\ Last(final_q').seq = n
         /\ \E i \in 1..Len(event_q) : event_q[i] = Last(final_q')
         /\ n \notin Stamps(event_q')
    \* revs gains or changes an entry only by a pop that takes the item out
    \* of final_q
    /\ (Len(revs') >= Len(revs) /\ revs' # revs) =>
         /\ FillPops
         /\ Last(final_q).seq \notin Stamps(final_q') \cup Stamps(event_q')
         /\ \E i \in 1..Len(revs') : revs'[i] = Revision(Last(final_q).data)
    /\ FillPops =>
         /\ Stamps(final_q') = Stamps(final_q) \ {Last(final_q).seq}
         /\ event_q' = event_q

\* C17: an accepted event is at any time in at most one place of event_q and
\* final_q together.  It gets into event_q only on being accepted, into
\* final_q only by a tick that takes it out of event_q, and into revs only
\* by a pop that takes it out of final_q; having left a deque it never
\* returns to it, so it is promoted at most once and upserted at most once,
\* and whatever is upserted was accepted and promoted before.
C17_MovedNotCopied == [](C17_State) /\ [][C17_Step]_vars

\* One event has been upserted while a later one waits in final_q and a
\* still later one in event_q.
C17_Witness ==
    /\ revs # <<>>
    /\ final_q # <<>>
    /\ event_q # <<>>
    /\ \A i \in 1..Len(final_q) : final_q[i].seq > 1
    /\ Running

\* Every Revision an event of the streams can be upserted as.
Revisions ==
    { Revision(ev.data) :
        ev \in { x \in UNION { Range(st) : st \in Streams } :
                   parse_exc(x.data) = NoExc } }

Pending(e) == \E i \in 1..Len(revs) : revs[i] = e

Resolved(e) == emitted # <<>> /\ emitted[1].rev = e

\* The response in hand reports for e's title a revision >= e.rev_id.
ReportsEnough(e) ==
    \A i \in 1..Len(pages) :
      pages[i].title = e.page_title =>
        (Indexed(pages[i]) # <<>> /\ Indexed(pages[i])[1] >= e.rev_id)

\* C18: take any entry e.  If the process keeps running (every lookup
\* succeeds and no popped payload is malformed), e is never replaced by an
\* upsert, and from some time on every response reports for e's title a
\* revision >= e.rev_id, then, the main thread being scheduled fairly,
\* whenever e is pending it is eventually removed and yielded.
C18_EventuallyResolved ==
    \A e \in Revisions :
      ([]Running /\ [](overwritten # <<e>>) /\ <>[]ReportsEnough(e))
        => (Pending(e) ~> Resolved(e))

\* The whole stream was taken in and the last edit of Q1 has been resolved.
C18_Witness ==
    /\ Running
    /\ fed = Len(feed)
    /\ event_q = <<>>
    /\ final_q = <<>>
    /\ pc = "sleep"
    /\ emitted # <<>>
    /\ emitted[1].rev.rev_id = 44
    /\ revs = <<>>

\* d2 is d1 with some entries left out: the others as they were, in order.
RECURSIVE Remainder(_, _)
Remainder(d2, d1) ==
    IF d2 = <<>> THEN TRUE
    ELSE IF d1 = <<>> THEN FALSE
    ELSE IF Head(d2) = Head(d1) THEN Remainder(Tail(d2), Tail(d1))
    ELSE Remainder(d2, Tail(d1))

C19_Step ==
    \* while fill_revs runs
    /\ pc = "fill" =>
         /\ Titles(revs) \subseteq Titles(revs')
         /\ Len(revs') >= Len(revs)
         /\ revs' # revs => FillPops
         /\ final_q = <<>> => (revs' = revs /\ exc' = NoExc /\ pc' \in {"fill", "query"})
         /\ FillPops => pc' = "fill"
         /\ pc' = "query" => final_q = <<>>
    \* while the response is consumed
    /\ pc = "resolve" =>
         /\ Remainder(revs', revs)
         /\ revs' # revs => (ResolveSteps /\ Len(revs') = Len(revs) - 1)
    /\ Len(revs') > Len(revs) => (pc = "fill" /\ Len(revs') = Len(revs) + 1)
    /\ Len(revs') < Len(revs) => pc = "resolve"
    /\ pc \in {"query", "sleep"} => revs' = revs

\* C19: fill_revs only adds entries to revs or replaces them, it removes
\* none; the loop over the response only removes entries, it adds none and
\* leaves those that stay as they are.  So revs gets longer only in
\* fill_revs and shorter only in that loop.  fill_revs returns when it finds
\* final_q empty, and not before.
C19_GrowAndShrink == [][C19_Step]_vars

\* revs grew to two entries in fill_revs and has shrunk to one in the loop
\* over the response: Q1 was removed, Q2 stays.
C19_Witness ==
    /\ pc = "sleep"
    /\ Len(revs) = 1
    /\ revs[1].page_title = "Q2"
    /\ emitted # <<>>
    /\ emitted[1].rev.page_title = "Q1"
====
